---- MODULE Spec2Model ----
(***************************************************************************)
(* Model of src/plugins/SchedEvents.cpp of KernelShark: the "second pass"  *)
(* that repairs the pid of the events trailing a sched_switch, the draw    *)
(* callback plugin_draw that runs it once per stream, and the LatencyBox   *)
(* built by makeShape with its hit test.                                   *)
(***************************************************************************)
EXTENDS Integers, Sequences, FiniteSets

VARIABLES
    entries,          \* the stream: index -> kshark_entry (pid, event_id, visible, next)
    entries0,         \* the stream as it was loaded (never written)
    ss_data,          \* plugin_ctx->ss_data: sequence of (entry, field)
    sw_data,          \* plugin_ctx->sw_data: sequence of (entry, field)
    second_pass_done, \* plugin_ctx->second_pass_done
    call,             \* the plugin_draw call that has just returned, if any
    shapes,           \* the shapes that call handed to the host
    pc,               \* position inside secondPass: "loop", "walk", "done"
    i,                \* secondPass: index of the switch record in hand
    e,                \* secondPass: the entry the walk stands on
    visited,          \* the entries the walk of the record in hand stood on
    revisited,        \* the walk stood on an entry twice
    pre,              \* the stream as it was when record rec was taken in hand
    rec,              \* the record taken in hand last
    outcome,          \* how that record ended: "skipped", "corrected", "end"
    box,              \* SchedShape: the LatencyBox built last
    click,            \* SchedShape: the point of the last distance() call
    dist              \* SchedShape: what that call returned

vars == <<entries, entries0, ss_data, sw_data, second_pass_done, call, shapes,
          pc, i, e, visited, revisited, pre, rec, outcome, box, click, dist>>

--------------------------------------------------------------------------
(* Bounds of the model. *)

\* Longest stream (number of entries linked by next).
MaxLen == 4

\* Task ids: idle (0) and the two tasks of the trailing-event scenario.
Pids == {0, 7, 9}

\* prev_state values recorded in a sched_switch field: running, sleeping.
PrevStates == {0, 1}

--------------------------------------------------------------------------
(* The data the plugin works on. *)

\* A null kshark_entry pointer.
NULL == 0

\* Bit 7 of kshark_entry::visible.
KS_PLUGIN_UNTOUCHED_MASK == 128

\* visible of an entry no filter and no plugin has touched.
VisibleAll == 255

\* visible &= ~KS_PLUGIN_UNTOUCHED_MASK
ClearUntouched(v) ==
    v - ((v \div KS_PLUGIN_UNTOUCHED_MASK) % 2) * KS_PLUGIN_UNTOUCHED_MASK

Untouched(v) == (v \div KS_PLUGIN_UNTOUCHED_MASK) % 2 = 1

\* The field of a sched_switch record packs prev_state above the prev pid.
PREV_STATE_SHIFT == 16

MakeField(prev_state, pid) == prev_state * PREV_STATE_SHIFT + pid

plugin_sched_get_pid(field) == field % PREV_STATE_SHIFT

plugin_sched_get_prev_state(field) == field \div PREV_STATE_SHIFT

\* The events of a stream as recorded: what the first pass (data loading)
\* reads.  A sched_switch carries the pid switched to (next_pid), the pid
\* switched from (prev) and prev_state; a sched_waking the pid woken.
OtherEvents == [kind : {"other"}, pid : Pids]

SwitchEvents(states) ==
    [kind : {"sched_switch"}, pid : Pids, prev : Pids, prev_state : states]

WakingEvents == [kind : {"sched_waking"}, pid : Pids, woken : Pids \ {0}]

\* The entries after the first pass: the pid of a sched_switch entry is the
\* next pid of the event, and next links each entry to the one after it.
LoadEntries(raw) ==
    [k \in 1..Len(raw) |->
        [pid      |-> raw[k].pid,
         event_id |-> raw[k].kind,
         visible  |-> VisibleAll,
         next     |-> IF k < Len(raw) THEN k + 1 ELSE NULL]]

RECURSIVE LoadSwitch(_, _)
\* ss_data: one record per sched_switch entry, in stream order.
LoadSwitch(raw, k) ==
    IF k > Len(raw) THEN <<>>
    ELSE IF raw[k].kind = "sched_switch"
         THEN <<[entry |-> k,
                 field |-> MakeField(raw[k].prev_state, raw[k].prev)]>>
              \o LoadSwitch(raw, k + 1)
         ELSE LoadSwitch(raw, k + 1)

RECURSIVE LoadWaking(_, _)
\* sw_data: one record per sched_waking entry, in stream order.
LoadWaking(raw, k) ==
    IF k > Len(raw) THEN <<>>
    ELSE IF raw[k].kind = "sched_waking"
         THEN <<[entry |-> k, field |-> raw[k].woken]>> \o LoadWaking(raw, k + 1)
         ELSE LoadWaking(raw, k + 1)

--------------------------------------------------------------------------
(* secondPass *)

\* SkipRecord with the last test turned round: skip when the successor
\* carries the recorded pid.
SkipRecordWhenSame(ents, d) ==
    LET en == ents[d.entry] IN
    IF en.next = NULL THEN TRUE
    ELSE IF en.pid = 0 THEN TRUE
    ELSE IF en.event_id = ents[en.next].event_id THEN TRUE
    ELSE plugin_sched_get_pid(d.field) = ents[en.next].pid

\* The test of lines 125-127 that makes the loop continue.
SkipRecord(ents, d) ==
    LET en == ents[d.entry] IN
    IF en.next = NULL THEN TRUE
    ELSE IF en.pid = 0 THEN TRUE
    ELSE IF en.event_id = ents[en.next].event_id THEN TRUE
    ELSE plugin_sched_get_pid(d.field) # ents[en.next].pid

\* IsLastTrailing looking at x itself instead of its successor.
IsLastTrailingSelf(ents, x, d) ==
    ents[x].pid # plugin_sched_get_pid(d.field)

\* Line 132: the entry after x is no longer one of the recorded task.
IsLastTrailing(ents, x, d) ==
    ents[ents[x].next].pid # plugin_sched_get_pid(d.field)

\* EditEntry writing the recorded pid of the field instead of the pid of
\* the switch entry.
EditEntryRecorded(ents, x, d) ==
    [ents EXCEPT ![x] = [@ EXCEPT !.pid = plugin_sched_get_pid(d.field),
                                  !.visible = ClearUntouched(@)]]

\* Lines 139-140: x takes the pid of the switch entry and is marked edited.
EditEntry(ents, x, d) ==
    [ents EXCEPT ![x] = [@ EXCEPT !.pid = ents[d.entry].pid,
                                  !.visible = ClearUntouched(@)]]

\* WalkNext that does not advance.
WalkStay(ents, x) == x

\* Line 131: the step of the for loop.
WalkNext(ents, x) == ents[x].next

RECURSIVE FindLastTrailing(_, _, _)
\* Lines 131-143, from entry x on.
FindLastTrailing(ents, x, d) ==
    IF ents[x].next = NULL THEN ents
    ELSE IF IsLastTrailing(ents, x, d) THEN EditEntry(ents, x, d)
    ELSE FindLastTrailing(ents, WalkNext(ents, x), d)

RECURSIVE PassFrom(_, _, _)
\* Lines 122-144, from record k on.
PassFrom(ents, cSS, k) ==
    IF k > Len(cSS) THEN ents
    ELSE IF SkipRecord(ents, cSS[k]) THEN PassFrom(ents, cSS, k + 1)
    ELSE PassFrom(FindLastTrailing(ents, cSS[k].entry, cSS[k]), cSS, k + 1)

secondPass(ents, cSS) == PassFrom(ents, cSS, 1)

--------------------------------------------------------------------------
(* SchedPass: secondPass run once, statement by statement, over every       *)
(* loaded stream of sched_switch and other events.                         *)

NoCall == [sd |-> 0, pid |-> 0, draw_action |-> 0, returned |-> "none"]

NoBox == [built |-> FALSE]

NoClick == [x |-> 0, y |-> 0, made |-> FALSE]

PassStreams ==
    UNION {[1..n -> OtherEvents \cup SwitchEvents({0})] : n \in 1..MaxLen}

InitPass ==
    \E raw \in PassStreams :
        /\ entries = LoadEntries(raw)
        /\ entries0 = LoadEntries(raw)
        /\ ss_data = LoadSwitch(raw, 1)
        /\ sw_data = <<>>
        /\ second_pass_done = FALSE
        /\ call = NoCall
        /\ shapes = <<>>
        /\ pc = "loop"
        /\ i = 1
        /\ e = NULL
        /\ visited = {}
        /\ revisited = FALSE
        /\ pre = LoadEntries(raw)
        /\ rec = 0
        /\ outcome = "none"
        /\ box = NoBox
        /\ click = NoClick
        /\ dist = 0

drawVars == <<sw_data, second_pass_done, call, shapes>>
shapeVars == <<box, click, dist>>

\* Lines 122-128, a record that is skipped.
PassSkip ==
    /\ pc = "loop"
    /\ i <= Len(ss_data)
    /\ SkipRecord(entries, ss_data[i])
    /\ pre' = entries
    /\ rec' = i
    /\ outcome' = "skipped"
    /\ i' = i + 1
    /\ UNCHANGED <<entries, entries0, ss_data, pc, e, visited, revisited>>
    /\ UNCHANGED drawVars
    /\ UNCHANGED shapeVars

\* Lines 122-131, a record whose trailing events are searched.
PassEnter ==
    /\ pc = "loop"
    /\ i <= Len(ss_data)
    /\ ~SkipRecord(entries, ss_data[i])
    /\ pre' = entries
    /\ rec' = i
    /\ outcome' = "walking"
    /\ e' = ss_data[i].entry
    /\ visited' = {ss_data[i].entry}
    /\ pc' = "walk"
    /\ UNCHANGED <<entries, entries0, ss_data, i, revisited>>
    /\ UNCHANGED drawVars
    /\ UNCHANGED shapeVars

\* WalkEnd editing the entry the walk stopped on.
WalkEndEdits ==
    /\ pc = "walk"
    /\ entries[e].next = NULL
    /\ entries' = EditEntry(entries, e, ss_data[i])
    /\ outcome' = "end"
    /\ pc' = "loop"
    /\ i' = i + 1
    /\ UNCHANGED <<entries0, ss_data, e, visited, revisited, pre, rec>>
    /\ UNCHANGED drawVars
    /\ UNCHANGED shapeVars

\* Line 131, e->next is null: the for loop ends with nothing edited.
WalkEnd ==
    /\ pc = "walk"
    /\ entries[e].next = NULL
    /\ outcome' = "end"
    /\ pc' = "loop"
    /\ i' = i + 1
    /\ UNCHANGED <<entries, entries0, ss_data, e, visited, revisited, pre, rec>>
    /\ UNCHANGED drawVars
    /\ UNCHANGED shapeVars

\* Lines 132-141: the last trailing event is found and edited.
WalkEdit ==
    /\ pc = "walk"
    /\ entries[e].next # NULL
    /\ IsLastTrailing(entries, e, ss_data[i])
    /\ entries' = EditEntry(entries, e, ss_data[i])
    /\ outcome' = "corrected"
    /\ pc' = "loop"
    /\ i' = i + 1
    /\ UNCHANGED <<entries0, ss_data, e, visited, revisited, pre, rec>>
    /\ UNCHANGED drawVars
    /\ UNCHANGED shapeVars

\* Line 131, e = e->next.
WalkStep ==
    /\ pc = "walk"
    /\ entries[e].next # NULL
    /\ ~IsLastTrailing(entries, e, ss_data[i])
    /\ e' = WalkNext(entries, e)
    /\ visited' = visited \cup {WalkNext(entries, e)}
    /\ revisited' = (revisited \/ WalkNext(entries, e) \in visited)
    /\ UNCHANGED <<entries, entries0, ss_data, pc, i, pre, rec, outcome>>
    /\ UNCHANGED drawVars
    /\ UNCHANGED shapeVars

\* Line 122, i reached cSS->size: secondPass returns.
PassReturn ==
    /\ pc = "loop"
    /\ i > Len(ss_data)
    /\ pc' = "done"
    /\ UNCHANGED <<entries, entries0, ss_data, i, e, visited, revisited,
                   pre, rec, outcome>>
    /\ UNCHANGED drawVars
    /\ UNCHANGED shapeVars

NextPass ==
    \/ PassSkip
    \/ PassEnter
    \/ WalkEnd
    \/ WalkEdit
    \/ WalkStep
    \/ PassReturn

SchedPass == InitPass /\ [][NextPass]_vars /\ WF_vars(NextPass)

\* The statement-by-statement run and the function agree.
PassAgrees == pc = "done" => entries = secondPass(entries0, ss_data)

--------------------------------------------------------------------------
(* The LatencyBox: makeShape and distance. *)

\* std::numeric_limits<double>::max(), the distance of a click that misses.
DBL_MAX == 2147483647

\* Screen y of the base line of the graph's row.
BaseY == 10

\* Height of the graph's row in the draw callback.
RowHeight == 20

\* Highest bin of a graph: one bin per entry, and one before the first.
MaxBin == MaxLen

\* The graph of one task: its bins' base points and the height of its row.
Graph(h) ==
    [height |-> h, bin |-> [b \in 0..MaxBin |-> [x |-> b, y |-> BaseY]]]

\* int height = graph[0]->height() * .3, for a height that is not negative.
ScaledHeight(h) == (3 * h) \div 10

Green == <<0, 255, 0>>
Red == <<255, 0, 0>>

\* Lines 78-101.
makeShape(graph, bins, data, col, size) ==
    LET p0 == graph.bin[bins[1]]
        p1 == graph.bin[bins[2]]
        height == ScaledHeight(graph.height)
    IN  [built  |-> TRUE,
         _data  |-> data,
         fill   |-> FALSE,
         point  |-> [k \in 0..3 |->
                       CASE k = 0 -> [x |-> p0.x - 1, y |-> p0.y - height]
                         [] k = 1 -> [x |-> p0.x - 1, y |-> p0.y - 1]
                         [] k = 2 -> [x |-> p1.x - 1, y |-> p1.y - 1]
                         [] k = 3 -> [x |-> p1.x - 1, y |-> p1.y - height]],
         _size  |-> size,
         _color |-> col]

pointX(r, k) == r.point[k].x
pointY(r, k) == r.point[k].y

\* Lines 66-75.
distance(r, x, y) ==
    IF x < pointX(r, 0) \/ x > pointX(r, 2) THEN DBL_MAX
    ELSE IF y < pointY(r, 0) \/ y > pointY(r, 1) THEN DBL_MAX
    ELSE 0

--------------------------------------------------------------------------
(* plugin_draw *)

\* The flags of draw_action.
KSHARK_CPU_DRAW == 1
KSHARK_TASK_DRAW == 2

DrawActions == {KSHARK_CPU_DRAW, KSHARK_TASK_DRAW, KSHARK_CPU_DRAW + KSHARK_TASK_DRAW}

\* draw_action & KSHARK_TASK_DRAW
HasTaskDraw(draw_action) == (draw_action \div KSHARK_TASK_DRAW) % 2 = 1

\* Stream 0 is loaded and has a plugin context; stream 1 has none.
Streams == {0, 1}
Contexts == {0}

\* __get_context(sd) returns a context.
get_context(sd) == sd \in Contexts

\* The guard of line 159 that misses the test of pid.
EarlyReturnNoPid(pid, draw_action) == ~HasTaskDraw(draw_action)

\* Line 159: the call returns at once.
EarlyReturn(pid, draw_action) == ~HasTaskDraw(draw_action) \/ pid = 0

\* Lines 168-172 without the test of the flag.
CorrectAlways(done, ents, cSS) == secondPass(ents, cSS)

\* Lines 168-172: the entries after the guarded call of secondPass.
CorrectOnce(done, ents, cSS) == IF ~done THEN secondPass(ents, cSS) ELSE ents

\* Lines 174-177.
checkFieldSW(d, k, pid) == d[k].field = pid

\* prev_state & 0x7f
StateBits(prev_state) == prev_state % 128

\* Lines 179-183.
checkFieldSS(d, k, pid) ==
    /\ StateBits(plugin_sched_get_prev_state(d[k].field)) = 0
    /\ plugin_sched_get_pid(d[k].field) = pid

\* checkEntryPid accepting every record.
checkEntryAny(ents, d, k, pid) == TRUE

\* Lines 185-188.
checkEntryPid(ents, d, k, pid) == ents[d[k].entry].pid = pid

\* The bin an entry falls into: one bin per entry, in time order.
BinOf(x) == x

\* The first record of dB after entry x among those checkB accepts (okB),
\* 0 if none.
FirstAfter(dB, x, okB) ==
    LET ok == {k \in okB : dB[k].entry > x}
    IN  IF ok = {} THEN 0 ELSE CHOOSE k \in ok : \A m \in ok : k <= m

RECURSIVE IntervalsFrom(_, _, _, _, _, _, _)
\* eventFieldIntervalPlot from record k of dA on: every record checkA
\* accepts (okA) opens an interval, closed by the first later record of dB
\* that checkB accepts (okB); an interval that is not closed is dropped.
IntervalsFrom(k, dA, okA, dB, okB, col, size) ==
    IF k > Len(dA) THEN <<>>
    ELSE LET m == IF k \in okA THEN FirstAfter(dB, dA[k].entry, okB) ELSE 0
             rest == IntervalsFrom(k + 1, dA, okA, dB, okB, col, size)
         IN  IF m = 0 THEN rest
             ELSE <<makeShape(Graph(RowHeight),
                              <<BinOf(dA[k].entry), BinOf(dB[m].entry)>>,
                              <<dA[k], dB[m]>>, col, size)>> \o rest

\* The records of a container that a predicate of the caller accepts are
\* handed over as the set of their indices.
eventFieldIntervalPlot(dA, okA, dB, okB, col, size) ==
    IntervalsFrom(1, dA, okA, dB, okB, col, size)

\* Lines 190-202: the shapes of the two plots of task pid.
DrawnShapes(ents, pid) ==
    LET okSW  == {k \in 1..Len(sw_data) : checkFieldSW(sw_data, k, pid)}
        okSS  == {k \in 1..Len(ss_data) : checkFieldSS(ss_data, k, pid)}
        okPid == {k \in 1..Len(ss_data) : checkEntryPid(ents, ss_data, k, pid)}
    IN  eventFieldIntervalPlot(sw_data, okSW, ss_data, okPid, Green, -1)
        \o eventFieldIntervalPlot(ss_data, okSS, ss_data, okPid, Red, -1)

\* The task ids of a trace in the draw model.
TaskPids == Pids \ {0}

\* A kernel records a sched_switch between two different tasks.
TaskSwitches ==
    {ev \in [kind : {"sched_switch"}, pid : TaskPids, prev : TaskPids,
             prev_state : PrevStates] : ev.pid # ev.prev}

TaskEvents ==
    [kind : {"other"}, pid : TaskPids]
        \cup TaskSwitches
        \cup [kind : {"sched_waking"}, pid : TaskPids, woken : TaskPids]

DrawStreams == UNION {[1..n -> TaskEvents] : n \in 1..MaxLen}

Init ==
    \E raw \in DrawStreams :
        /\ entries = LoadEntries(raw)
        /\ entries0 = LoadEntries(raw)
        /\ ss_data = LoadSwitch(raw, 1)
        /\ sw_data = LoadWaking(raw, 1)
        /\ second_pass_done = FALSE
        /\ call = NoCall
        /\ shapes = <<>>
        /\ pc = "done"
        /\ i = 1
        /\ e = NULL
        /\ visited = {}
        /\ revisited = FALSE
        /\ pre = LoadEntries(raw)
        /\ rec = 0
        /\ outcome = "none"
        /\ box = NoBox
        /\ click = NoClick
        /\ dist = 0

passVars == <<pc, i, e, visited, revisited, pre, rec, outcome>>

\* Lines 155-203: one call of plugin_draw by the host.
PluginDraw ==
    /\ call = NoCall
    /\ \E sd \in Streams, pid \in Pids, draw_action \in DrawActions :
        IF EarlyReturn(pid, draw_action)
        THEN /\ call' = [sd |-> sd, pid |-> pid, draw_action |-> draw_action,
                         returned |-> "early"]
             /\ shapes' = <<>>
             /\ UNCHANGED <<entries, second_pass_done>>
        ELSE IF ~get_context(sd)
        THEN /\ call' = [sd |-> sd, pid |-> pid, draw_action |-> draw_action,
                         returned |-> "no_context"]
             /\ shapes' = <<>>
             /\ UNCHANGED <<entries, second_pass_done>>
        ELSE /\ entries' = CorrectOnce(second_pass_done, entries, ss_data)
             /\ second_pass_done' = TRUE
             /\ shapes' = DrawnShapes(entries', pid)
             /\ call' = [sd |-> sd, pid |-> pid, draw_action |-> draw_action,
                         returned |-> "drawn"]
    /\ UNCHANGED <<entries0, ss_data, sw_data>>
    /\ UNCHANGED passVars
    /\ UNCHANGED shapeVars

\* The host draws the shapes of the call and empties its list: the draw
\* calls of one stream do not overlap.
HostTakesShapes ==
    /\ call.returned \in {"early", "no_context", "drawn"}
    /\ call' = NoCall
    /\ shapes' = <<>>
    /\ UNCHANGED <<entries, entries0, ss_data, sw_data, second_pass_done>>
    /\ UNCHANGED passVars
    /\ UNCHANGED shapeVars

Next ==
    \/ PluginDraw
    \/ HostTakesShapes

Spec == Init /\ [][Next]_vars

--------------------------------------------------------------------------
(* SchedShape: boxes built by makeShape for every pair of bins and every   *)
(* row height, and clicks tested against them.                             *)

\* Tallest row.
MaxHeight == 7

\* How far around the graph a click may fall.
ClickMargin == 2

InitShape ==
    /\ entries = <<>>
    /\ entries0 = <<>>
    /\ ss_data = <<>>
    /\ sw_data = <<>>
    /\ second_pass_done = FALSE
    /\ call = NoCall
    /\ shapes = <<>>
    /\ pc = "done"
    /\ i = 1
    /\ e = NULL
    /\ visited = {}
    /\ revisited = FALSE
    /\ pre = <<>>
    /\ rec = 0
    /\ outcome = "none"
    /\ box = NoBox
    /\ click = NoClick
    /\ dist = 0

\* The interval matcher builds a box for the bins b0 and b1 of a row of
\* height h.
BuildBox ==
    /\ \E b0 \in 0..MaxBin, b1 \in 0..MaxBin, h \in 0..MaxHeight :
        box' = makeShape(Graph(h), <<b0, b1>>, <<>>, Green, -1)
    /\ click' = NoClick
    /\ dist' = 0
    /\ UNCHANGED <<entries, entries0, ss_data, sw_data, second_pass_done,
                   call, shapes>>
    /\ UNCHANGED passVars

\* The host asks the box for its distance to a click.
HitTest ==
    /\ box.built
    /\ \E x \in (0 - ClickMargin)..(MaxBin + ClickMargin),
          y \in (BaseY - ClickMargin - 2)..(BaseY + ClickMargin) :
        /\ click' = [x |-> x, y |-> y, made |-> TRUE]
        /\ dist' = distance(box, x, y)
    /\ UNCHANGED box
    /\ UNCHANGED <<entries, entries0, ss_data, sw_data, second_pass_done,
                   call, shapes>>
    /\ UNCHANGED passVars

NextShape ==
    \/ BuildBox
    \/ HitTest

SchedShape == InitShape /\ [][NextShape]_vars

--------------------------------------------------------------------------
(* Properties of secondPass, checked under SchedPass. *)

RECURSIVE ChainFrom(_, _)
\* The entries met following next from x, x first.
ChainFrom(ents, x) ==
    IF x = NULL THEN <<>> ELSE <<x>> \o ChainFrom(ents, ents[x].next)

Successor(ents, x) == ents[ents[x].next]

\* The record taken in hand last, its switch entry and its recorded pid.
RecD == ss_data[rec]
RecEntry == ss_data[rec].entry
RecPid == plugin_sched_get_pid(ss_data[rec].field)

\* The record taken in hand last has been dealt with.
RecFinished == rec > 0 /\ outcome \in {"skipped", "corrected", "end"}

\* The first three skip cases of the specification: no successor, idle,
\* same event kind as the successor.
SkipCommon(ents, d) ==
    \/ ents[d.entry].next = NULL
    \/ ents[d.entry].pid = 0
    \/ /\ ents[d.entry].next # NULL
       /\ ents[d.entry].event_id = Successor(ents, d.entry).event_id

\* The fourth skip case as the specification words it: the recorded id does
\* not differ from the successor's pid.
SkipClaimed(ents, d) ==
    \/ SkipCommon(ents, d)
    \/ /\ ents[d.entry].next # NULL
       /\ plugin_sched_get_pid(d.field) = Successor(ents, d.entry).pid

\* The fourth skip case as the code has it: the recorded id differs from
\* the successor's pid.
SkipAmended(ents, d) ==
    \/ SkipCommon(ents, d)
    \/ /\ ents[d.entry].next # NULL
       /\ plugin_sched_get_pid(d.field) # Successor(ents, d.entry).pid

\* C3 as stated: a record with no successor, an idle pid, the event kind of
\* its successor, or a recorded id equal to the successor's pid is skipped:
\* no entry is changed on its behalf.
C3_SkipAsClaimed ==
    (rec > 0 /\ SkipClaimed(pre, RecD)) => entries = pre

\* C3 amended: a record with no successor, an idle pid, the event kind of
\* its successor, or a recorded id that DIFFERS from the successor's pid is
\* skipped: it never enters the walk and no entry is changed on its behalf.
C3_SkipLeavesEntries ==
    (rec > 0 /\ SkipAmended(pre, RecD)) =>
        (outcome = "skipped" /\ entries = pre)

\* A record skipped only because its recorded id differs from the pid of
\* its successor.
C3_Witness ==
    /\ rec > 0
    /\ outcome = "skipped"
    /\ ~SkipCommon(pre, RecD)
    /\ RecPid # Successor(pre, RecEntry).pid

\* The places of the chain from the switch entry whose successor exists and
\* carries a pid other than the recorded one.
Mismatches ==
    LET ch == ChainFrom(pre, RecEntry) IN
    {j \in 1..Len(ch) :
        /\ pre[ch[j]].next # NULL
        /\ Successor(pre, ch[j]).pid # RecPid}

\* The entry at which the mismatch is confirmed: the first such place.
Boundary ==
    LET ch == ChainFrom(pre, RecEntry) IN
    ch[CHOOSE j \in Mismatches : \A k \in Mismatches : j <= k]

\* x is edited as the walk edits it, with pid p, and nothing else changes.
EditedTo(x, p) ==
    /\ entries[x].pid = p
    /\ ~Untouched(entries[x].visible)
    /\ entries[x].visible % KS_PLUGIN_UNTOUCHED_MASK
           = pre[x].visible % KS_PLUGIN_UNTOUCHED_MASK
    /\ entries[x].next = pre[x].next
    /\ entries[x].event_id = pre[x].event_id
    /\ \A k \in DOMAIN entries : k # x => entries[k] = pre[k]

\* C4 as stated: for a record that is not skipped, the first entry of the
\* chain whose successor has a pid other than the recorded id gets the
\* recorded id as its pid and its untouched bit cleared.
C4_BoundaryGetsRecordedId ==
    (RecFinished /\ ~SkipAmended(pre, RecD) /\ Mismatches # {}) =>
        (outcome = "corrected" /\ EditedTo(Boundary, RecPid))

\* C4 amended: for a record that is not skipped, the first entry of the
\* chain whose successor has a pid other than the recorded id gets the pid
\* the switch entry carries (the next pid of the switch) and its untouched
\* bit cleared; nothing else changes.
C4_BoundaryGetsSwitchPid ==
    (RecFinished /\ ~SkipAmended(pre, RecD) /\ Mismatches # {}) =>
        (outcome = "corrected" /\ e = Boundary
            /\ EditedTo(Boundary, pre[RecEntry].pid))

\* A corrected record whose switch entry carries another pid than the
\* recorded one, after a walk over more than one trailing entry.
C4_Witness ==
    /\ RecFinished
    /\ outcome = "corrected"
    /\ pre[RecEntry].pid # RecPid
    /\ Cardinality(visited) >= 3
    /\ entries[e].pid = pre[RecEntry].pid

\* C7: when the walk of a record that is not skipped reaches the end of the
\* chain without a successor of another pid, no entry is modified for that
\* record and the pass goes on with the next record.
C7_EndOfChainLeavesEntries ==
    (RecFinished /\ ~SkipAmended(pre, RecD) /\ Mismatches = {}) =>
        (outcome = "end" /\ entries = pre /\ i = rec + 1
            /\ pc \in {"loop", "done"})

\* A walk that ran to the end of the chain, with a later record still to do.
C7_Witness ==
    /\ RecFinished
    /\ outcome = "end"
    /\ Cardinality(visited) >= 2
    /\ i <= Len(ss_data)

\* C6: the pass terminates, and the walk of one record only moves from an
\* entry to its next and never stands on an entry twice.
C6_WalkTerminates ==
    /\ <>(pc = "done")
    /\ [](~revisited)
    /\ [][(pc = "walk" /\ e' # e) => e' = entries[e].next]_vars

\* A finished pass whose last walk stood on three entries.
C6_Witness ==
    /\ pc = "done"
    /\ Cardinality(visited) >= 3
    /\ outcome = "corrected"

\* The trailing-event scenario at record q with k trailing entries: the
\* switch entry carries n, the recorded id is another pid, the k entries
\* after it carry the recorded id, the first of them is of another event
\* kind, and the entry after them carries n.
TrailingScenario(q, k) ==
    LET s  == ss_data[q].entry
        r  == plugin_sched_get_pid(ss_data[q].field)
        ch == ChainFrom(entries0, s)
    IN  /\ k >= 1
        /\ k + 2 <= Len(ch)
        /\ entries0[s].pid # r
        /\ \A j \in 2..(k + 1) : entries0[ch[j]].pid = r
        /\ entries0[ch[2]].event_id # entries0[s].event_id
        /\ entries0[ch[k + 2]].pid = entries0[s].pid

\* After the pass the last trailing entry carries n with its untouched bit
\* cleared, and the switch entry and the other trailing entries are as loaded.
TrailingCorrected(q, k) ==
    LET s  == ss_data[q].entry
        ch == ChainFrom(entries0, s)
    IN  /\ entries[ch[k + 1]].pid = entries0[s].pid
        /\ ~Untouched(entries[ch[k + 1]].visible)
        /\ \A j \in 1..k : entries[ch[j]] = entries0[ch[j]]

\* No other switch record sits on the switch entry's chain before the
\* entry that follows the trailing ones, nor anywhere before the switch entry.
AloneUpToBoundary(q, k) ==
    LET s  == ss_data[q].entry
        ch == ChainFrom(entries0, s)
    IN  \A o \in 1..Len(ss_data) :
            o # q =>
                \E j \in (k + 2)..Len(ch) : ch[j] = ss_data[o].entry

--------------------------------------------------------------------------
(* Properties of plugin_draw, checked under Spec. *)

\* The call that has just returned was made with a zero pid, without the
\* task-draw flag, or for a stream without a plugin context.
GuardFails(c) ==
    \/ c.pid = 0
    \/ (c.draw_action \div KSHARK_TASK_DRAW) % 2 = 0
    \/ c.sd \notin Contexts

\* C1 as stated: the pass is idempotent by itself: run again on the data a
\* first run has corrected, it changes no entry's pid or visibility bits.
C1_PassIdempotent ==
    second_pass_done => secondPass(entries, ss_data) = entries

\* C1 amended: idempotence holds through the flag guard of plugin_draw:
\* whatever the number of draw calls, the entries are those loaded until the
\* pass has run and from then on those one run of the pass leaves.
C1_GuardedPassOnce ==
    /\ ~second_pass_done => entries = entries0
    /\ second_pass_done => entries = secondPass(entries0, ss_data)

\* The pass has run, a second run would change an entry, and the host is
\* about to draw again.
C1_Witness ==
    /\ second_pass_done
    /\ call = NoCall
    /\ entries # entries0
    /\ secondPass(entries, ss_data) # entries

\* C2: second_pass_done starts false, becomes true in the first draw call
\* that passes the entry guards, is never set back, and the entries are
\* changed by no call made while it is true.
C2_PassRunsOnce ==
    /\ ~second_pass_done
    /\ [][second_pass_done => (second_pass_done' /\ entries' = entries)]_vars
    /\ [][(~second_pass_done /\ call'.returned # "none" /\ ~GuardFails(call'))
            => (second_pass_done' /\ call'.returned = "drawn")]_vars
    /\ [][(call'.returned # "none" /\ GuardFails(call'))
            => second_pass_done' = second_pass_done]_vars

\* A draw call has returned with the flag set, over entries the pass has
\* corrected and would change again.
C2_Witness ==
    /\ second_pass_done
    /\ call.returned = "drawn"
    /\ entries # entries0
    /\ secondPass(entries, ss_data) # entries

\* C8: a call with pid 0, without the task-draw flag or for a stream without
\* a context returns with no shapes, does not run the pass, keeps
\* second_pass_done and modifies no entry.
C8_EarlyReturn ==
    [][(call'.returned # "none" /\ GuardFails(call'))
        => (/\ call'.returned \in {"early", "no_context"}
            /\ shapes' = <<>>
            /\ entries' = entries
            /\ second_pass_done' = second_pass_done)]_vars

\* A call for pid 0 has returned before the pass ever ran, on a stream the
\* pass would have changed.
C8_Witness ==
    /\ call.returned = "early"
    /\ call.pid = 0
    /\ call.sd \in Contexts
    /\ (call.draw_action \div KSHARK_TASK_DRAW) % 2 = 1
    /\ ~second_pass_done
    /\ secondPass(entries, ss_data) # entries

\* The starts of the two plots of task pid: the records of sw_data whose
\* field is pid, and the records of ss_data that switch pid out with the
\* state bits clear.
WakeStarts(pid) == {k \in 1..Len(sw_data) : sw_data[k].field = pid}

PreemptStarts(pid) ==
    {k \in 1..Len(ss_data) :
        /\ (ss_data[k].field \div PREV_STATE_SHIFT) % 128 = 0
        /\ ss_data[k].field % PREV_STATE_SHIFT = pid}

\* The records of ss_data that can end an interval of task pid opened at
\* entry x.
Ends(x, pid) ==
    {m \in 1..Len(ss_data) :
        ss_data[m].entry > x /\ entries[ss_data[m].entry].pid = pid}

ShapesOf(col, d) ==
    {j \in 1..Len(shapes) : shapes[j]._color = col /\ shapes[j]._data[1] = d}

--------------------------------------------------------------------------
(* Properties of the LatencyBox, checked under SchedShape. *)

Between(a, v, b) ==
    (IF a <= b THEN a ELSE b) <= v /\ v <= (IF a <= b THEN b ELSE a)

\* The click lies within the closed bounds of the box: between the x of
\* corners 0 and 2 and between the y of corners 0 and 1.
ClickInside ==
    /\ Between(box.point[0].x, click.x, box.point[2].x)
    /\ Between(box.point[0].y, click.y, box.point[1].y)

\* C9: distance returns 0 for every click within the closed bounds of the
\* box and the unreachable sentinel for every click outside, for all row
\* heights and bin orders.
C9_HitTestExact ==
    (box.built /\ click.made) =>
        dist = (IF ClickInside THEN 0 ELSE DBL_MAX)

====
